---- MODULE Spec2Model ----
(***************************************************************************)
(* Model of scripts/make_phyloseq_files.py: main() combines per-sample     *)
(* Lemur classification tables into an OTU (abundance) table and a         *)
(* taxonomy table.  One run is modelled: the glob result is the input, the *)
(* loop over the matched files takes one step per file, and the last step  *)
(* builds and writes the two tables.                                       *)
(*                                                                         *)
(* A data frame is a record [columns, rows]; a row is a function from the  *)
(* frame's column names to cell values.  A Python dict is a function whose *)
(* domain is the set of its keys.  A cell that pandas holds as missing is  *)
(* NaN in a text column and the empty option <<>> in a numeric column      *)
(* (a present number v is <<v>>).                                          *)
(***************************************************************************)
EXTENDS Integers, Sequences, FiniteSets, TLC

VARIABLES pc, file_list, files, i, otu_dict, tax_dict, sample_names,
          otu_out, tax_out, log

vars == <<pc, file_list, files, i, otu_dict, tax_dict, sample_names,
          otu_out, tax_out, log>>

\* Bounds of the model: matched files per run, data rows over all of them.
MaxFiles == 2
MaxRows == 2

Range(s) == {s[k] : k \in DOMAIN s}

\* An empty Python dict.
EmptyDict == [k \in {} |-> {}]

\* A missing value of a text column (an empty field read by read_csv).
NaN == "NaN"

----------------------------------------------------------------------------
\* Column names and the rank mapping (lines 41-51, 61, 64).

required_tax_cols ==
    <<"species", "genus", "family", "order", "class", "phylum", "superkingdom">>

\* desired_columns in insertion order: <<output column, input column>>.
desired_columns ==
    << <<"Kingdom", "superkingdom">>, <<"Phylum", "phylum">>,
       <<"Class", "class">>, <<"Order", "order">>, <<"Family", "family">>,
       <<"Genus", "genus">>, <<"Species", "species">> >>

IdCol == "Target_ID"
CountCol == "estimated counts"

----------------------------------------------------------------------------
\* Inputs: the files a glob can match.

AllColumns == {IdCol, CountCol} \cup Range(required_tax_cols)

\* Headers of the input files: complete, or lacking one column.
Headers ==
    {AllColumns, AllColumns \ {IdCol}, AllColumns \ {CountCol},
     AllColumns \ {"species"}}

\* Paths a pattern can match; two of them share the base name S1.
Paths ==
    {[stem |-> "S1", ext |-> ".tsv"], [stem |-> "S1", ext |-> ".txt"],
     [stem |-> "S2", ext |-> ".tsv"]}

TaxA ==
    ("species" :> "sA") @@ ("genus" :> "gA") @@ ("family" :> "fA") @@
    ("order" :> "oA") @@ ("class" :> "cA") @@ ("phylum" :> "pA") @@
    ("superkingdom" :> "kA")

\* A classification whose species field is empty.
TaxN ==
    ("species" :> NaN) @@ ("genus" :> "gN") @@ ("family" :> "fN") @@
    ("order" :> "oN") @@ ("class" :> "cN") @@ ("phylum" :> "pN") @@
    ("superkingdom" :> "kN")

TaxB ==
    ("species" :> "sB") @@ ("genus" :> "gB") @@ ("family" :> "fB") @@
    ("order" :> "oB") @@ ("class" :> "cB") @@ ("phylum" :> "pB") @@
    ("superkingdom" :> "kB")

MkRow(id, n, tax) ==
    [c \in AllColumns |->
        IF c = IdCol THEN id ELSE IF c = CountCol THEN n ELSE tax[c]]

\* The data rows a file can hold, before its header drops a column.
RowKinds ==
    {MkRow("OTU1", 1, TaxN), MkRow("OTU1", 2, TaxA), MkRow("OTU2", 2, TaxB)}

RowSeqs(n) == UNION {[1..k -> RowKinds] : k \in 0..n}

Project(rs, cols) == [k \in DOMAIN rs |-> [c \in cols |-> rs[k][c]]]

\* What read_csv can make of a file with at most n data rows: no table at
\* all (the read raises), or a table under one of the headers.
Contents(n) ==
    {[readable |-> FALSE, columns |-> {}, rows |-> <<>>]}
    \cup {[readable |-> TRUE, columns |-> h, rows |-> Project(rs, h)] :
             h \in Headers, rs \in RowSeqs(n)}

\* The lists a glob can return: at most n distinct paths, in any order.
PathLists(n) ==
    {pl \in UNION {[1..k -> Paths] : k \in 0..n} :
        \A a, b \in DOMAIN pl : a # b => pl[a] # pl[b]}

RECURSIVE RowsIn(_)
RowsIn(fs) == IF fs = <<>> THEN 0 ELSE Len(Head(fs).rows) + RowsIn(Tail(fs))

----------------------------------------------------------------------------
\* Pure steps of main().

\* os.path.splitext(os.path.basename(file))[0]  (line 69)
SampleName(p) == p.stem

\* read_csv succeeded (lines 54-58).
Readable(f) == f.readable

\* missing = [col for col in required_tax_cols if col not in df.columns]
MissingCols(df) ==
    SelectSeq(required_tax_cols, LAMBDA col : col \notin df.columns)

\* The group keys of df.groupby("Target_ID").
GroupKeys(rows) == {rows[k][IdCol] : k \in DOMAIN rows}

\* df.groupby("Target_ID")["estimated counts"].sum() at one key (line 79).
RECURSIVE GroupSum(_, _)
GroupSum(rows, otu) ==
    IF rows = <<>> THEN 0
    ELSE (IF Head(rows)[IdCol] = otu THEN Head(rows)[CountCol] ELSE 0)
         + GroupSum(Tail(rows), otu)

\* df.groupby("Target_ID")[col].first() at one key (line 82): pandas takes
\* the first value of the column in the group that is not missing, and a
\* missing value when the group has none.
RECURSIVE GroupFirst(_, _, _)
GroupFirst(rows, otu, col) ==
    IF rows = <<>> THEN NaN
    ELSE IF Head(rows)[IdCol] = otu /\ Head(rows)[col] # NaN
         THEN Head(rows)[col]
         ELSE GroupFirst(Tail(rows), otu, col)

\* tax_info_new.loc[otu].to_dict() (lines 85-87, 99): the output columns in
\* the order of desired_columns, each with the value of its input column.
TaxInfoNew(rows, otu) ==
    [k \in DOMAIN desired_columns |->
        <<desired_columns[k][1], GroupFirst(rows, otu, desired_columns[k][2])>>]

\* sample_names.append(sample_name)  (lines 69-70)
RegisterSample(names, file) == Append(names, SampleName(file))

\* A variant of lines 93-95 that stores a count only under an identifier the
\* dict already holds.
UpdateOtu_NoNewRow(od, rows, sample) ==
    [o \in DOMAIN od |->
        IF o \in GroupKeys(rows)
        THEN (sample :> GroupSum(rows, o)) @@ od[o]
        ELSE od[o]]

\* Lines 93-95 over all rows of grouped.
UpdateOtu(od, rows, sample) ==
    [o \in DOMAIN od \cup GroupKeys(rows) |->
        IF o \in GroupKeys(rows)
        THEN (sample :> GroupSum(rows, o))
             @@ (IF o \in DOMAIN od THEN od[o] ELSE EmptyDict)
        ELSE od[o]]

\* Lines 98-99 over all rows of grouped.
UpdateTax(td, rows) ==
    [o \in DOMAIN td \cup GroupKeys(rows) |->
        IF o \in DOMAIN td THEN td[o] ELSE TaxInfoNew(rows, o)]

\* pd.DataFrame.from_dict(otu_dict, orient="index").reindex(columns=names):
\* one cell per index key and position of names, missing where the dict
\* has no value under that label (lines 102, 104).
Reindex(od, names) ==
    [index |-> DOMAIN od, columns |-> names,
     data |-> [o \in DOMAIN od |->
                 [k \in DOMAIN names |->
                     IF names[k] \in DOMAIN od[o]
                     THEN <<od[o][names[k]]>> ELSE <<>>]]]

\* A variant of line 104 without the fill.
FillNa_Omitted(df) == df

\* .fillna(0)  (line 104)
FillNa(df) ==
    [df EXCEPT !.data =
        [o \in df.index |->
            [k \in DOMAIN df.columns |->
                IF df.data[o][k] = <<>> THEN <<0>> ELSE df.data[o][k]]]]

\* pd.DataFrame.from_dict(tax_dict, orient="index") (line 108): the columns
\* are the keys of the records, and there are none when the dict is empty.
TaxFrame(td) ==
    [index |-> DOMAIN td,
     columns |-> IF DOMAIN td = {} THEN <<>>
                 ELSE LET r == td[CHOOSE o \in DOMAIN td : TRUE]
                      IN  [k \in DOMAIN r |-> r[k][1]],
     data |-> [o \in DOMAIN td |-> [k \in DOMAIN td[o] |-> td[o][k][2]]]]

----------------------------------------------------------------------------
\* The run.  files[j] is what the read of file_list[j] returned.

Init ==
    /\ pc = "glob"
    /\ file_list = <<>>
    /\ files = <<>>
    /\ i = 1
    /\ otu_dict = EmptyDict
    /\ tax_dict = EmptyDict
    /\ sample_names = <<>>
    /\ otu_out = <<>>
    /\ tax_out = <<>>
    /\ log = <<>>

\* file_list = glob.glob(...)  (line 34)
Glob ==
    /\ pc = "glob"
    /\ \E pl \in PathLists(MaxFiles) : file_list' = pl
    /\ pc' = "globbed"
    /\ UNCHANGED <<files, i, otu_dict, tax_dict, sample_names, otu_out,
                   tax_out, log>>

\* if not file_list: print(...); return  (lines 35-37)
NoFiles ==
    /\ pc = "globbed"
    /\ file_list = <<>>
    /\ log' = Append(log, "no files found")
    /\ pc' = "returned"
    /\ UNCHANGED <<file_list, files, i, otu_dict, tax_dict, sample_names,
                   otu_out, tax_out>>

\* The list is not empty: the loop starts (lines 39-53).
EnterLoop ==
    /\ pc = "globbed"
    /\ file_list # <<>>
    /\ pc' = "loop"
    /\ UNCHANGED <<file_list, files, i, otu_dict, tax_dict, sample_names,
                   otu_out, tax_out, log>>

InLoop == pc = "loop" /\ i <= Len(file_list)

\* What the read of file_list[i] (line 55) can return: the rows read in
\* one run are bounded by MaxRows.
Readings == Contents(MaxRows - RowsIn(files))

\* The read of file_list[i] returned c.
Read(c) ==
    /\ InLoop
    /\ files' = Append(files, c)

\* A variant of lines 54-58 without the try: the exception ends the run.
ReadError_Uncaught ==
    \E c \in Readings :
        /\ Read(c)
        /\ ~Readable(c)
        /\ pc' = "aborted"
        /\ UNCHANGED <<file_list, i, otu_dict, tax_dict, sample_names,
                       otu_out, tax_out, log>>

\* read_csv raises (lines 54-58).
ReadError ==
    \E c \in Readings :
        /\ Read(c)
        /\ ~Readable(c)
        /\ log' = Append(log, "error reading")
        /\ i' = i + 1
        /\ UNCHANGED <<pc, file_list, otu_dict, tax_dict, sample_names,
                       otu_out, tax_out>>

\* Lines 61-63.
NoTargetID ==
    \E c \in Readings :
        /\ Read(c)
        /\ Readable(c)
        /\ IdCol \notin c.columns
        /\ log' = Append(log, "no Target_ID")
        /\ i' = i + 1
        /\ UNCHANGED <<pc, file_list, otu_dict, tax_dict, sample_names,
                       otu_out, tax_out>>

\* A variant of lines 64-70 that registers the sample before it looks for
\* the abundance column.
NoCounts_Registers ==
    \E c \in Readings :
        /\ Read(c)
        /\ Readable(c)
        /\ IdCol \in c.columns
        /\ CountCol \notin c.columns
        /\ sample_names' = RegisterSample(sample_names, file_list[i])
        /\ log' = Append(log, "no estimated counts")
        /\ i' = i + 1
        /\ UNCHANGED <<pc, file_list, otu_dict, tax_dict, otu_out, tax_out>>

\* Lines 64-66.
NoCounts ==
    \E c \in Readings :
        /\ Read(c)
        /\ Readable(c)
        /\ IdCol \in c.columns
        /\ CountCol \notin c.columns
        /\ log' = Append(log, "no estimated counts")
        /\ i' = i + 1
        /\ UNCHANGED <<pc, file_list, otu_dict, tax_dict, sample_names,
                       otu_out, tax_out>>

\* A variant of lines 68-76 and 93-95 that stores the counts of a file
\* before it leaves the file for a missing taxonomy column.
MissingTaxonomy_KeepsCounts ==
    \E c \in Readings :
        /\ Read(c)
        /\ Readable(c)
        /\ IdCol \in c.columns
        /\ CountCol \in c.columns
        /\ MissingCols(c) # <<>>
        /\ sample_names' = RegisterSample(sample_names, file_list[i])
        /\ otu_dict' = UpdateOtu(otu_dict, c.rows, SampleName(file_list[i]))
        /\ log' = Append(log, "missing taxonomy columns")
        /\ i' = i + 1
        /\ UNCHANGED <<pc, file_list, tax_dict, otu_out, tax_out>>

\* Lines 68-76: the sample is registered, then the file is left because a
\* taxonomy column is missing.
MissingTaxonomy ==
    \E c \in Readings :
        /\ Read(c)
        /\ Readable(c)
        /\ IdCol \in c.columns
        /\ CountCol \in c.columns
        /\ MissingCols(c) # <<>>
        /\ sample_names' = RegisterSample(sample_names, file_list[i])
        /\ log' = Append(log, "missing taxonomy columns")
        /\ i' = i + 1
        /\ UNCHANGED <<pc, file_list, otu_dict, tax_dict, otu_out, tax_out>>

\* Lines 68-99 for a file with every column.
ProcessFile ==
    \E c \in Readings :
        /\ Read(c)
        /\ Readable(c)
        /\ IdCol \in c.columns
        /\ CountCol \in c.columns
        /\ MissingCols(c) = <<>>
        /\ sample_names' = RegisterSample(sample_names, file_list[i])
        /\ otu_dict' = UpdateOtu(otu_dict, c.rows, SampleName(file_list[i]))
        /\ tax_dict' = UpdateTax(tax_dict, c.rows)
        /\ i' = i + 1
        /\ UNCHANGED <<pc, file_list, otu_out, tax_out, log>>

\* Lines 101-115: both tables are built and written.
WriteTables ==
    /\ pc = "loop"
    /\ i > Len(file_list)
    /\ otu_out' = Append(otu_out, FillNa(Reindex(otu_dict, sample_names)))
    /\ tax_out' = Append(tax_out, TaxFrame(tax_dict))
    /\ log' = Append(Append(log, "OTU table written"),
                     "Taxonomy table written")
    /\ pc' = "done"
    /\ UNCHANGED <<file_list, files, i, otu_dict, tax_dict, sample_names>>

Next ==
    \/ Glob
    \/ NoFiles
    \/ EnterLoop
    \/ ReadError
    \/ NoTargetID
    \/ NoCounts
    \/ MissingTaxonomy
    \/ ProcessFile
    \/ WriteTables

Spec == Init /\ [][Next]_vars

----------------------------------------------------------------------------
\* The statements checked of the run.

\* The file passed the identifier-column and abundance-column validation.
Validated(f) == f.readable /\ IdCol \in f.columns /\ CountCol \in f.columns

\* The file has the seven taxonomy columns.
HasAllTax(f) == Range(required_tax_cols) \subseteq f.columns

\* The sample name of the j-th visited file.
NameOf(j) == file_list[j].stem

\* The sum of the abundance values of the rows of rs that carry identifier o.
RECURSIVE SumOf(_, _)
SumOf(rs, o) ==
    IF rs = <<>> THEN 0
    ELSE SumOf(Tail(rs), o)
         + (IF Head(rs)[IdCol] = o THEN Head(rs)[CountCol] ELSE 0)

\* The first row of rs that carries identifier o.
FirstRow(rs, o) == rs[CHOOSE k \in DOMAIN rs :
                        /\ rs[k][IdCol] = o
                        /\ \A m \in 1..(k - 1) : rs[m][IdCol] # o]

\* The visited files that have every column and a row carrying o.
Suppliers(o) ==
    {j \in DOMAIN files :
        /\ Validated(files[j]) /\ HasAllTax(files[j])
        /\ \E k \in DOMAIN files[j].rows : files[j].rows[k][IdCol] = o}

\* The names of the validated files among the first n visited, in order.
RECURSIVE ValidatedNames(_)
ValidatedNames(n) ==
    IF n = 0 THEN <<>>
    ELSE IF Validated(files[n])
         THEN Append(ValidatedNames(n - 1), NameOf(n))
         ELSE ValidatedNames(n - 1)

\* The rank columns of the taxonomy table and the input column of each.
OutputRanks ==
    <<"Kingdom", "Phylum", "Class", "Order", "Family", "Genus", "Species">>

InputRank ==
    ("Kingdom" :> "superkingdom") @@ ("Phylum" :> "phylum") @@
    ("Class" :> "class") @@ ("Order" :> "order") @@ ("Family" :> "family") @@
    ("Genus" :> "genus") @@ ("Species" :> "species")

\* C1: a file that passes the identifier and abundance validation but lacks
\* a taxonomy column has, once it is processed, given each of its
\* identifiers its summed abundance under its sample column, and has added
\* no taxonomy entry.
C1_AbundanceWithoutTaxonomy ==
    \A j \in DOMAIN files :
        (j = Len(files) /\ Validated(files[j]) /\ ~HasAllTax(files[j])) =>
            /\ \A o \in {files[j].rows[k][IdCol] : k \in DOMAIN files[j].rows} :
                  /\ o \in DOMAIN otu_dict
                  /\ NameOf(j) \in DOMAIN otu_dict[o]
                  /\ otu_dict[o][NameOf(j)] = SumOf(files[j].rows, o)
            /\ (j = 1 => tax_dict = EmptyDict)

\* C2: at every point of the run the registered sample names are the names
\* of the visited files that were readable and have both the identifier
\* and the abundance column, whatever their taxonomy columns, and the
\* columns of the written abundance table are those names.
C2_ColumnIffValidated ==
    /\ sample_names = ValidatedNames(Len(files))
    /\ \A t \in Range(otu_out) :
          Range(t.columns) =
              {NameOf(j) : j \in {k \in DOMAIN files : Validated(files[k])}}

\* A finished run with a registered file that lacks a taxonomy column and a
\* readable file without the abundance column whose name is no column.
C2_Witness ==
    /\ pc = "done"
    /\ \E j, k \in DOMAIN files :
          /\ Validated(files[j]) /\ ~HasAllTax(files[j])
          /\ NameOf(j) \in Range(otu_out[1].columns)
          /\ files[k].readable /\ CountCol \notin files[k].columns
          /\ NameOf(k) \notin Range(otu_out[1].columns)

\* C3: in the written abundance table the cell of an identifier under the
\* sample column of a validated file is the sum of the abundance values of
\* that file's rows carrying the identifier.
C3_CellIsFileSum ==
    \A t \in Range(otu_out) :
        \A j \in DOMAIN files :
            Validated(files[j]) =>
                \A o \in {files[j].rows[k][IdCol] : k \in DOMAIN files[j].rows} :
                    /\ o \in t.index
                    /\ \A k \in DOMAIN t.columns :
                          t.columns[k] = NameOf(j) =>
                              t.data[o][k] = <<SumOf(files[j].rows, o)>>

\* C4: the taxonomy entry of an identifier holds the rank values of the
\* first row carrying the identifier in the first visited file that has
\* the seven taxonomy columns and contains the identifier.
C4_FirstRowOfFirstFile ==
    \A o \in DOMAIN tax_dict :
        /\ Suppliers(o) # {}
        /\ LET j == CHOOSE a \in Suppliers(o) : \A b \in Suppliers(o) : a <= b
               r == FirstRow(files[j].rows, o)
           IN  \A k \in DOMAIN tax_dict[o] :
                   tax_dict[o][k][2] = r[InputRank[tax_dict[o][k][1]]]

\* C5: the written abundance table has a value in every cell, and the value
\* is 0 when no file of that sample name contributed a count for the
\* identifier.
C5_NoMissingCells ==
    \A t \in Range(otu_out) :
        \A o \in t.index :
            /\ DOMAIN t.data[o] = DOMAIN t.columns
            /\ \A k \in DOMAIN t.columns :
                  /\ Len(t.data[o][k]) = 1
                  /\ (\A j \in Suppliers(o) : NameOf(j) # t.columns[k])
                        => t.data[o][k] = <<0>>

\* A written table with a filled cell next to a counted one.
C5_Witness ==
    /\ otu_out # <<>>
    /\ \E o \in otu_out[1].index :
          \E k, m \in DOMAIN otu_out[1].columns :
              /\ otu_out[1].data[o][k] = <<0>>
              /\ otu_out[1].data[o][m] # <<0>>
              /\ Suppliers(o) # {}

\* C6: at every point of the run every identifier with a taxonomy entry has
\* an abundance row, in the dicts and in the written tables.
C6_TaxonomySubsetOfAbundance ==
    /\ DOMAIN tax_dict \subseteq DOMAIN otu_dict
    /\ \A k \in DOMAIN otu_out :
          tax_out[k].index \subseteq otu_out[k].index

\* Taxonomy entries exist while files are still to be visited.
C6_Witness ==
    /\ pc = "loop"
    /\ i <= Len(file_list)
    /\ DOMAIN tax_dict # {}

\* C7: a run that returned had an empty file list and wrote nothing; a run
\* that is done had a non-empty list, visited every file and wrote each
\* table once; before that nothing is written and the run can always take
\* its next step, whatever the files hold.
C7_WritesOnceUnlessEmpty ==
    /\ pc = "returned" =>
          /\ file_list = <<>> /\ otu_out = <<>> /\ tax_out = <<>>
          /\ log = <<"no files found">>
    /\ pc = "done" =>
          /\ file_list # <<>> /\ Len(files) = Len(file_list)
          /\ Len(otu_out) = 1 /\ Len(tax_out) = 1
    /\ pc \notin {"returned", "done"} =>
          /\ otu_out = <<>> /\ tax_out = <<>>
          /\ ENABLED Next

\* A finished run over an unreadable file and a file lacking a taxonomy
\* column.
C7_Witness ==
    /\ pc = "done"
    /\ Len(otu_out) = 1 /\ Len(tax_out) = 1
    /\ \E j, k \in DOMAIN files :
          /\ ~files[j].readable
          /\ Validated(files[k]) /\ ~HasAllTax(files[k])

\* C8: the columns of the written abundance table are the registered sample
\* names in the order of their files, each name once.
C8_ColumnsOnceInOrder ==
    \A t \in Range(otu_out) :
        /\ t.columns = ValidatedNames(Len(files))
        /\ \A a, b \in DOMAIN t.columns : a # b => t.columns[a] # t.columns[b]

\* C9: the written taxonomy table has the seven rank columns in the fixed
\* order, and each value is the value of the mapped input rank in the file
\* that supplied the identifier's taxonomy.
C9_SevenRankColumns ==
    \A t \in Range(tax_out) :
        /\ t.columns = OutputRanks
        /\ \A o \in t.index :
              LET j == CHOOSE a \in Suppliers(o) : \A b \in Suppliers(o) : a <= b
              IN  \A k \in DOMAIN OutputRanks :
                      \E m \in DOMAIN files[j].rows :
                          /\ files[j].rows[m][IdCol] = o
                          /\ t.data[o][k] =
                                files[j].rows[m][InputRank[OutputRanks[k]]]

====
